---------------------------- MODULE Spec2Model ----------------------------
(***************************************************************************)
(* Model of the markup editor in src/web/js/core/Editor.js: the textarea   *)
(* buffer with its selection, the markup insertion (insertMarkup), the     *)
(* preview render cycle (updatePreview) and the handlers that drive them.  *)
(* Strings are sequences of one-character strings.                         *)
(***************************************************************************)
EXTENDS Integers, Sequences, FiniteSets, TLC

VARIABLES
    value,          \* this.editor.value
    selStart,       \* this.editor.selectionStart
    selEnd,         \* this.editor.selectionEnd
    preview,        \* this.preview.innerHTML, as the sequence of blocks it holds
    persisted,      \* what state.saveContent was last handed
    wordCountOf,    \* what state.updateWordCount was last handed
    debugLog,       \* this.debugOutput.textContent, as the sequence of its entries
    parserRejects,  \* the character parseToHtml rejects (NoChar: it accepts everything)
    hljsDefined,    \* whether the global hljs exists
    debugMode,      \* state.isDebugMode()
    logThrows,      \* whether writing a debug entry throws
    escaped,        \* whether the last handler ended by an exception leaving updatePreview
    last,           \* the last edit handler: its calls, and insertMarkup's arguments
    nInserts,       \* insertMarkup calls so far
    nEdits,         \* input events so far
    windowEdits,    \* input events of the current quiet window
    windowRenders,  \* updatePreview calls those input events have made
    exportRequests, \* exportToPDF calls so far
    exportsInFlight,\* exporter.toPDF promises not yet settled
    exportsResolved,\* exporter.toPDF promises that resolved
    exportsRejected,\* exporter.toPDF promises that rejected
    indicator,      \* #exportIndicator: style.display and the classes loading, show
    notification    \* what state.showNotification was last handed

vars == <<value, selStart, selEnd, preview, persisted, wordCountOf, debugLog,
          parserRejects, hljsDefined, debugMode, logThrows, escaped, last, nInserts,
          nEdits, windowEdits, windowRenders, exportRequests, exportsInFlight,
          exportsResolved, exportsRejected, indicator, notification>>

envVars == <<parserRejects, hljsDefined, debugMode, logThrows>>

exportVars == <<exportRequests, exportsInFlight, exportsResolved, exportsRejected,
                indicator, notification>>

-----------------------------------------------------------------------------
(* Bounds *)

\* longest buffer an editing session builds
MaxLen == 5
\* input events of one session
MaxEdits == 2
\* entries the debug log may hold
MaxLog == 2
\* exportToPDF calls of one session
MaxExports == 2
\* longest buffer the insertion function is first applied to
MaxText == 1
\* consecutive insertMarkup calls applied to one such buffer
MaxChain == 2

-----------------------------------------------------------------------------
(* Strings *)

NL == "\n"
NoChar == "none"
Undefined == "undefined"

TypedChars == {"a", NL}

Min(a, b) == IF a < b THEN a ELSE b
Max(a, b) == IF a > b THEN a ELSE b

\* String.prototype.slice(from, to)
Slice(s, from, to) ==
    LET len == Len(s)
        f == IF from < 0 THEN Max(len + from, 0) ELSE Min(from, len)
        t == IF to < 0 THEN Max(len + to, 0) ELSE Min(to, len)
    IN  IF f < t THEN SubSeq(s, f + 1, t) ELSE <<>>

\* String.prototype.slice(from)
SliceFrom(s, from) == Slice(s, from, Len(s))

\* s[i], zero-based
CharAt(s, i) == IF i >= 0 /\ i < Len(s) THEN s[i + 1] ELSE Undefined

\* String.prototype.endsWith
EndsWith(s, t) ==
    /\ Len(t) <= Len(s)
    /\ SubSeq(s, Len(s) - Len(t) + 1, Len(s)) = t

StartsWith(s, t) ==
    /\ Len(t) <= Len(s)
    /\ SubSeq(s, 1, Len(t)) = t

Contains(s, c) == \E i \in 1..Len(s) : s[i] = c


-----------------------------------------------------------------------------
(* The markup rules the toolbar, the shortcuts and the insert helpers pass *)

Rule(p, s, e) == [prefix |-> p, suffix |-> s, ensureNewline |-> e]

\* click on a .toolbar-button: the rule its data-action selects
ToolbarInsertActions ==
    {"h1", "h2", "h3", "bold", "italic", "underline", "ulist", "olist",
     "link", "image", "code", "quote", "nested-quote", "hr"}

insertHorizontalRule == Rule(<<"j","s">>, <<NL>>, TRUE)
insertLink ==
    Rule(<<"j","g"," ","[","t","e","x","t","]"," ","g","h"," ",
           "[","u","r","l","]"," ","h","g">>, <<NL>>, TRUE)
insertImage ==
    Rule(<<"j","h"," ","[","a","l","t","]"," ","g","h"," ",
           "[","u","r","l","]"," ","h","j">>, <<NL>>, TRUE)
insertCodeBlock ==
    Rule(<<"j","k","d"," ","p","y","t","h","o","n",NL>>, <<NL,"d","k","j">>, TRUE)
insertQuote == Rule(<<"k","l"," ">>, <<NL>>, TRUE)
insertNestedQuote == Rule(<<"k","l","l"," ">>, <<NL>>, TRUE)

ToolbarRule(action) ==
    CASE action = "h1" -> Rule(<<"j","f"," ">>, <<NL>>, TRUE)
      [] action = "h2" -> Rule(<<"j","f","f"," ">>, <<NL>>, TRUE)
      [] action = "h3" -> Rule(<<"j","f","f","f"," ">>, <<NL>>, TRUE)
      [] action = "bold" -> Rule(<<"j","s"," ">>, <<" ","s","j">>, TRUE)
      [] action = "italic" -> Rule(<<"j","d"," ">>, <<" ","d","j">>, TRUE)
      [] action = "underline" -> Rule(<<"j","u"," ">>, <<" ","u","j">>, TRUE)
      [] action = "ulist" -> Rule(<<"j","a"," ">>, <<NL>>, TRUE)
      [] action = "olist" -> Rule(<<"j","l"," ">>, <<NL>>, TRUE)
      [] action = "link" -> insertLink
      [] action = "image" -> insertImage
      [] action = "code" -> insertCodeBlock
      [] action = "quote" -> insertQuote
      [] action = "nested-quote" -> insertNestedQuote
      [] action = "hr" -> insertHorizontalRule

\* Ctrl+key shortcuts that insert markup
ShortcutInsertKeys == {"b", "i", "u", "k", "q"}

ShortcutRule(key) ==
    CASE key = "b" -> Rule(<<"j","s">>, <<"s","j">>, TRUE)
      [] key = "i" -> Rule(<<"j","d">>, <<"d","j">>, TRUE)
      [] key = "u" -> Rule(<<"j","u">>, <<"u","j">>, TRUE)
      [] key = "k" -> insertLink
      [] key = "q" -> insertQuote

\* the toolbar-* events the constructor subscribes to
ToolbarEvents ==
    {"toolbar-hr", "toolbar-link", "toolbar-image", "toolbar-code",
     "toolbar-quote", "toolbar-nested-quote"}

ToolbarEventRule(ev) ==
    CASE ev = "toolbar-hr" -> insertHorizontalRule
      [] ev = "toolbar-link" -> insertLink
      [] ev = "toolbar-image" -> insertImage
      [] ev = "toolbar-code" -> insertCodeBlock
      [] ev = "toolbar-quote" -> insertQuote
      [] ev = "toolbar-nested-quote" -> insertNestedQuote

-----------------------------------------------------------------------------
(* insertMarkup(prefix, suffix, ensureNewline), step by step *)

\* prefix.match(/^(jf+|ja|jl|kl)/)
isBlockLevel(prefix) ==
    \/ StartsWith(prefix, <<"j","f">>)
    \/ StartsWith(prefix, <<"j","a">>)
    \/ StartsWith(prefix, <<"j","l">>)
    \/ StartsWith(prefix, <<"k","l">>)

\* prependNewline without the look at the character before the selection
prependNewlineIgnoresPrevious(text, start, prefix, ensureNewline) ==
    IF ensureNewline /\ start > 0 /\ isBlockLevel(prefix) THEN <<NL>> ELSE <<>>

\* prependNewline without the start > 0 test
prependNewlineAtStart(text, start, prefix, ensureNewline) ==
    IF ensureNewline /\ CharAt(text, start - 1) # NL /\ isBlockLevel(prefix)
    THEN <<NL>>
    ELSE <<>>

prependNewline(text, start, prefix, ensureNewline) ==
    IF ensureNewline /\ start > 0 /\ CharAt(text, start - 1) # NL /\ isBlockLevel(prefix)
    THEN <<NL>>
    ELSE <<>>

\* appendNewline without the look at the suffix
appendNewlineIgnoresSuffix(prefix, suffix, ensureNewline) ==
    IF ensureNewline /\ isBlockLevel(prefix) THEN <<NL>> ELSE <<>>

appendNewline(prefix, suffix, ensureNewline) ==
    IF ensureNewline /\ ~EndsWith(suffix, <<NL>>) /\ isBlockLevel(prefix)
    THEN <<NL>>
    ELSE <<>>

\* newText with the selection replaced instead of wrapped
newTextDropsSelection(text, start, end, prefix, suffix, ensureNewline) ==
    Slice(text, 0, start)
        \o prependNewline(text, start, prefix, ensureNewline)
        \o prefix
        \o suffix
        \o appendNewline(prefix, suffix, ensureNewline)
        \o SliceFrom(text, end)

newText(text, start, end, prefix, suffix, ensureNewline) ==
    Slice(text, 0, start)
        \o prependNewline(text, start, prefix, ensureNewline)
        \o prefix
        \o Slice(text, start, end)
        \o suffix
        \o appendNewline(prefix, suffix, ensureNewline)
        \o SliceFrom(text, end)

\* newPosition with the caret left between the selected text and the suffix
newPositionBeforeSuffix(text, start, end, prefix, suffix, ensureNewline) ==
    start
        + Len(prependNewline(text, start, prefix, ensureNewline))
        + Len(prefix)
        + Len(Slice(text, start, end))

\* newPosition counted from the end of the selection instead of its start
newPositionFromEnd(text, start, end, prefix, suffix, ensureNewline) ==
    end
        + Len(prependNewline(text, start, prefix, ensureNewline))
        + Len(prefix)
        + Len(Slice(text, start, end))
        + Len(suffix)

newPosition(text, start, end, prefix, suffix, ensureNewline) ==
    start
        + Len(prependNewline(text, start, prefix, ensureNewline))
        + Len(prefix)
        + Len(Slice(text, start, end))
        + Len(suffix)

\* HTMLTextAreaElement.setSelectionRange(p, p) on a control holding text
setSelectionRange(text, p) == Min(Max(p, 0), Len(text))

-----------------------------------------------------------------------------
(* updatePreview and logDebug *)

\* sanitizeInput(raw): an opaque function of the raw text
sanitizeInput(raw) == [sanitized |-> raw]

\* parseToHtml(input) fails with a ParseError on the inputs the parser rejects
parseThrows(input) ==
    parserRejects # NoChar /\ Contains(input.sanitized, parserRejects)

ParseErrorMessage == "unexpected token"
HljsErrorMessage == "hljs is not defined"

\* parseToHtml(input): an opaque function of the input
parseToHtml(input) == [htmlOf |-> input]

HtmlBlock(html, highlighted) ==
    [kind |-> "html", html |-> html, highlighted |-> highlighted]

\* <pre class="error">Error: ${error.message}</pre>
ErrorBlock(message) == [kind |-> "error", message |-> message]

LogErrorMessage == "debug output unavailable"

\* a logDebug that writes whatever the debug flag says
logDebugUngated(log, message, details) ==
    log \o <<[message |-> message, details |-> details]>>

\* whether a call of logDebug throws: only past its isDebugMode() return
logDebugThrows == debugMode /\ logThrows

\* logDebug(message, details): the debug output after the call
logDebug(log, message, details) ==
    IF ~debugMode THEN log
    ELSE log \o <<[message |-> message, details |-> details]>>

\* the try block: what it leaves in the preview and the log, and what it threw
tryRender(raw, pv, log) ==
    LET input == sanitizeInput(raw)
        html == parseToHtml(input)
    IN  IF parseThrows(input)
        THEN [threw |-> TRUE, message |-> ParseErrorMessage, preview |-> pv, log |-> log]
        ELSE IF ~hljsDefined
        THEN [threw |-> TRUE, message |-> HljsErrorMessage,
              preview |-> <<HtmlBlock(html, FALSE)>>, log |-> log]
        ELSE IF logDebugThrows
        THEN [threw |-> TRUE, message |-> LogErrorMessage,
              preview |-> <<HtmlBlock(html, TRUE)>>, log |-> log]
        ELSE [threw |-> FALSE, message |-> "",
              preview |-> <<HtmlBlock(html, TRUE)>>,
              log |-> logDebug(log, "Preview updated", [input |-> input, html |-> html])]

\* a catch block that rethrows
catchRenderRethrows(message, pv, log) ==
    [preview |-> pv, log |-> log, escaped |-> TRUE]

\* a catch block that adds the error block to the preview (innerHTML +=)
catchRenderAppends(message, pv, log) ==
    [preview |-> pv \o <<ErrorBlock(message)>>,
     log |-> logDebug(log, "Parser error", [error |-> message]),
     escaped |-> FALSE]

\* the catch block, entered with the preview and log the try block left
catchRender(message, pv, log) ==
    [preview |-> <<ErrorBlock(message)>>,
     log |-> IF logDebugThrows THEN log
             ELSE logDebug(log, "Parser error", [error |-> message]),
     escaped |-> logDebugThrows]

\* updatePreview() on editor value raw: the preview and log it leaves, and
\* whether an exception left it
updatePreview(raw, pv, log) ==
    LET t == tryRender(raw, pv, log)
    IN  IF t.threw
        THEN catchRender(t.message, t.preview, t.log)
        ELSE [preview |-> t.preview, log |-> t.log, escaped |-> FALSE]

\* a render appends at most one entry; the log is kept within MaxLog
LogHasRoom == ~debugMode \/ Len(debugLog) < MaxLog

NoCall == [op |-> "none"]

\* state.showNotification(message, level = "info")
Notification(message, level) == [message |-> message, level |-> level]

NoNotification == Notification("", "")

-----------------------------------------------------------------------------
(* Construction *)

\* what state.loadContent() may return
StoredContents == {<<>>, <<"a", NL>>}

\* the editor holding content with [s, e] selected, rendered by loadContent()
Loaded(content, s, e) ==
    LET r == updatePreview(content, <<>>, <<>>)
    IN  /\ value = content
        /\ selStart = s
        /\ selEnd = e
        /\ persisted = content
        /\ wordCountOf = content
        /\ preview = r.preview
        /\ debugLog = r.log
        /\ escaped = r.escaped
        /\ last = NoCall
        /\ nInserts = 0
        /\ nEdits = 0
        /\ windowEdits = 0
        /\ windowRenders = 0
        /\ exportRequests = 0
        /\ exportsInFlight = 0
        /\ exportsResolved = 0
        /\ exportsRejected = 0
        /\ indicator = [display |-> "", loading |-> FALSE, show |-> FALSE]
        /\ notification = NoNotification

\* the parser, highlighter and debug flag a session may run with
Environments ==
    {[rejects |-> NoChar, hljs |-> TRUE, debug |-> FALSE],
     [rejects |-> "a", hljs |-> TRUE, debug |-> FALSE],
     [rejects |-> NoChar, hljs |-> FALSE, debug |-> FALSE],
     [rejects |-> "a", hljs |-> TRUE, debug |-> TRUE]}

Init ==
    /\ \E env \in Environments :
          /\ parserRejects = env.rejects
          /\ hljsDefined = env.hljs
          /\ debugMode = env.debug
          /\ logThrows = FALSE
    /\ \E content \in StoredContents : Loaded(content, Len(content), Len(content))

-----------------------------------------------------------------------------
(* Handlers *)

\* a call a handler makes on a collaborator or on the editor itself
CallOf(name, content) == [call |-> name, content |-> content]

\* the calls of the content-changed handler, in the order it makes them
contentChangedCalls(content, raw) ==
    <<CallOf("saveContent", content), CallOf("updateWordCount", content),
      CallOf("updatePreview", raw)>>

\* a content-changed handler that saves and counts but leaves the render out
contentChangedNoRender(content) ==
    /\ persisted' = content
    /\ wordCountOf' = content
    /\ windowEdits' = windowEdits + 1
    /\ last' = [op |-> "input",
                calls |-> <<CallOf("saveContent", content),
                            CallOf("updateWordCount", content)>>]
    /\ UNCHANGED <<preview, debugLog, escaped, windowRenders>>

\* a content-changed handler that saves only what rendered without a fault
contentChangedSavesRendered(content) ==
    LET r == updatePreview(value', preview, debugLog)
    IN  /\ persisted' = IF tryRender(value', preview, debugLog).threw
                        THEN persisted ELSE content
        /\ wordCountOf' = content
        /\ preview' = r.preview
        /\ debugLog' = r.log
        /\ escaped' = r.escaped
        /\ windowEdits' = windowEdits + 1
        /\ windowRenders' = windowRenders + 1
        /\ last' = [op |-> "input", calls |-> contentChangedCalls(content, value'),
                    inFlight |-> exportsInFlight]

\* events.on("content-changed", content => ...): save, word count, render
contentChanged(content) ==
    LET r == updatePreview(value', preview, debugLog)
    IN  /\ persisted' = content
        /\ wordCountOf' = content
        /\ preview' = r.preview
        /\ debugLog' = r.log
        /\ escaped' = r.escaped
        /\ windowEdits' = windowEdits + 1
        /\ windowRenders' = windowRenders + 1
        /\ last' = [op |-> "input", calls |-> contentChangedCalls(content, value'),
                    inFlight |-> exportsInFlight]

\* the textarea's value and caret after the key is typed over the selection
Typed(key) ==
    IF key = "Backspace"
    THEN IF selStart < selEnd
         THEN [value |-> Slice(value, 0, selStart) \o SliceFrom(value, selEnd),
               caret |-> selStart]
         ELSE [value |-> Slice(value, 0, selStart - 1) \o SliceFrom(value, selEnd),
               caret |-> selStart - 1]
    ELSE [value |-> Slice(value, 0, selStart) \o <<key>> \o SliceFrom(value, selEnd),
          caret |-> selStart + 1]

\* "input" on the editor: emit("content-changed", e.target.value)
Input(key) ==
    /\ nEdits < MaxEdits
    /\ LogHasRoom
    /\ key = "Backspace" => selEnd > 0
    /\ Len(Typed(key).value) <= MaxLen
    /\ value' = Typed(key).value
    /\ selStart' = Typed(key).caret
    /\ selEnd' = Typed(key).caret
    /\ contentChanged(value')
    /\ nEdits' = nEdits + 1
    /\ UNCHANGED <<envVars, nInserts, exportVars>>

\* state.saveContent(this.editor.value)
saveContent ==
    /\ persisted' = value
    /\ UNCHANGED <<value, selStart, selEnd, preview, wordCountOf, debugLog, envVars,
                   escaped, last, nInserts, nEdits, windowEdits, windowRenders,
                   exportVars>>

\* "blur" on the editor
Blur == saveContent

\* Ctrl+S
SaveShortcut == saveContent

\* "beforeunload" on the window
BeforeUnload == saveContent

\* the calls insertMarkup makes once it has assigned newText to the editor
\* value, render before save
insertMarkupCallsRenderFirst(nt) ==
    <<CallOf("updatePreview", nt), CallOf("saveContent", nt)>>

\* the calls insertMarkup makes once it has assigned newText to the editor
\* value, in the order it makes them
insertMarkupCalls(nt) ==
    <<CallOf("saveContent", nt), CallOf("updatePreview", nt)>>

\* insertMarkup(prefix, suffix, ensureNewline)
insertMarkup(rule) ==
    LET text == value
        start == selStart
        end == selEnd
        nt == newText(text, start, end, rule.prefix, rule.suffix, rule.ensureNewline)
        np == newPosition(text, start, end, rule.prefix, rule.suffix, rule.ensureNewline)
        r == updatePreview(nt, preview, debugLog)
        caret == IF r.escaped THEN Len(nt) ELSE setSelectionRange(nt, np)
    IN  /\ value' = nt
        /\ persisted' = nt
        /\ preview' = r.preview
        /\ debugLog' = r.log
        /\ escaped' = r.escaped
        /\ selStart' = caret
        /\ selEnd' = caret
        /\ last' = [op |-> "insert", text |-> text, start |-> start, end |-> end,
                    prefix |-> rule.prefix, suffix |-> rule.suffix,
                    ensureNewline |-> rule.ensureNewline, newPosition |-> np,
                    calls |-> insertMarkupCalls(nt),
                    inFlight |-> exportsInFlight,
                    again |-> /\ last.op = "insert"
                              /\ last.prefix = rule.prefix
                              /\ last.suffix = rule.suffix
                              /\ last.ensureNewline = rule.ensureNewline]
        /\ UNCHANGED <<wordCountOf, envVars, nEdits, windowEdits, windowRenders,
                       exportVars>>

\* the session keeps its buffer within MaxLen and its log within MaxLog
InsertFits(rule) ==
    /\ LogHasRoom
    /\ Len(newText(value, selStart, selEnd, rule.prefix, rule.suffix,
                   rule.ensureNewline)) <= MaxLen

\* the handlers of "export-start": classList.add("loading"), classList.add("show")
onExportStart(ind) == [ind EXCEPT !.loading = TRUE, !.show = TRUE]

\* the handlers of "export-success" and "export-error":
\* classList.remove("loading"), classList.remove("show")
onExportSettled(ind) == [ind EXCEPT !.loading = FALSE, !.show = FALSE]

\* an export is started only when none is in flight
exportToPDFStartsWhenIdle(inFlight) == inFlight = 0

\* whether a call of exportToPDF reaches exporter.toPDF: nothing guards it
exportToPDFStarts(inFlight) == TRUE

\* exportToPDF() up to its await: the indicator is displayed and
\* exporter.toPDF(this.preview) is called, which announces "export-start"
exportToPDF ==
    /\ exportRequests < MaxExports
    /\ exportRequests' = exportRequests + 1
    /\ IF exportToPDFStarts(exportsInFlight)
       THEN /\ exportsInFlight' = exportsInFlight + 1
            /\ indicator' = onExportStart([indicator EXCEPT !.display = "flex"])
       ELSE UNCHANGED <<exportsInFlight, indicator>>
    /\ UNCHANGED <<exportsResolved, exportsRejected, notification>>

\* exportToPDF() from its await on: the promise of exporter.toPDF settles,
\* "export-success" or "export-error" is announced, the try or the catch
\* notifies, and finally hides the indicator
ExportSettles(ok) ==
    /\ exportsInFlight > 0
    /\ exportsInFlight' = exportsInFlight - 1
    /\ IF ok
       THEN /\ exportsResolved' = exportsResolved + 1
            /\ notification' = Notification("Export completed successfully", "info")
            /\ UNCHANGED exportsRejected
       ELSE /\ exportsRejected' = exportsRejected + 1
            /\ notification' = Notification("Failed to export PDF", "error")
            /\ UNCHANGED exportsResolved
    /\ indicator' = [onExportSettled(indicator) EXCEPT !.display = "none"]
    /\ UNCHANGED <<value, selStart, selEnd, preview, persisted, wordCountOf,
                   debugLog, envVars, escaped, last, nInserts, nEdits, windowEdits,
                   windowRenders, exportRequests>>

\* the switch on the action tag, its default case running the export
toolbarCaseDefaultExports(action) ==
    IF action \in ToolbarInsertActions THEN "insert" ELSE "export-pdf"

\* switch (action): the cases that insert markup, case "export-pdf", default
toolbarCase(action) ==
    IF action \in ToolbarInsertActions THEN "insert"
    ELSE IF action = "export-pdf" THEN "export-pdf"
    ELSE "default"

\* click on a .toolbar-button: switch (target.dataset.action)
ToolbarClick(action) ==
    IF toolbarCase(action) = "insert"
    THEN /\ InsertFits(ToolbarRule(action))
         /\ insertMarkup(ToolbarRule(action))
         /\ UNCHANGED nInserts
    ELSE /\ IF toolbarCase(action) = "export-pdf"
            THEN exportToPDF
            ELSE UNCHANGED exportVars
         /\ last' = [op |-> "click", action |-> action]
         /\ escaped' = FALSE
         /\ UNCHANGED <<value, selStart, selEnd, preview, persisted, wordCountOf,
                        debugLog, envVars, nInserts, nEdits, windowEdits,
                        windowRenders>>

\* a handler that calls exportToPDF and nothing else
exportHandler ==
    /\ exportToPDF
    /\ UNCHANGED <<value, selStart, selEnd, preview, persisted, wordCountOf,
                   debugLog, envVars, escaped, last, nInserts, nEdits, windowEdits,
                   windowRenders>>

\* Ctrl+E
ExportShortcut == exportHandler

\* click on #exportPDF
ExportButton == exportHandler

\* Ctrl+B, Ctrl+I, Ctrl+U, Ctrl+K, Ctrl+Q
Shortcut(key) ==
    /\ InsertFits(ShortcutRule(key))
    /\ insertMarkup(ShortcutRule(key))
    /\ UNCHANGED nInserts

\* events.on("toolbar-hr", ...) and the like
ToolbarEvent(ev) ==
    /\ InsertFits(ToolbarEventRule(ev))
    /\ insertMarkup(ToolbarEventRule(ev))
    /\ UNCHANGED nInserts

\* the user moves the caret to the start or the end, or selects everything
Select(s, e) ==
    /\ <<s, e>> # <<selStart, selEnd>>
    /\ selStart' = s
    /\ selEnd' = e
    /\ last' = NoCall
    /\ UNCHANGED <<value, preview, persisted, wordCountOf, debugLog, envVars,
                   escaped, nInserts, nEdits, windowEdits, windowRenders, exportVars>>

\* DEBOUNCE_DELAY passes with no input event
QuietElapse ==
    /\ windowEdits > 0
    /\ windowEdits' = 0
    /\ windowRenders' = 0
    /\ UNCHANGED <<value, selStart, selEnd, preview, persisted, wordCountOf,
                   debugLog, envVars, escaped, last, nInserts, nEdits, exportVars>>

Next ==
    \/ \E key \in TypedChars \cup {"Backspace"} : Input(key)
    \/ Blur
    \/ SaveShortcut
    \/ BeforeUnload
    \/ \E action \in ToolbarInsertActions : ToolbarClick(action)
    \/ \E key \in ShortcutInsertKeys : Shortcut(key)
    \/ \E ev \in ToolbarEvents : ToolbarEvent(ev)
    \/ \E sel \in {<<0, 0>>, <<Len(value), Len(value)>>, <<0, Len(value)>>} :
          Select(sel[1], sel[2])
    \/ QuietElapse

Spec == Init /\ [][Next]_vars

\* the tags the toolbar is documented to accept, and one it is not
ClosedTags == ToolbarInsertActions \cup {"export-pdf"}

UnknownTag == "unknown"

\* the editing session with its exports: the toolbar with every tag, typing,
\* both other ways to start an export, and the settling of exports
NextExport ==
    \/ \E key \in TypedChars \cup {"Backspace"} : Input(key)
    \/ \E action \in ClosedTags \cup {UnknownTag} : ToolbarClick(action)
    \/ ExportShortcut
    \/ ExportButton
    \/ \E ok \in BOOLEAN : ExportSettles(ok)

\* a session whose parser accepts everything or rejects "a"
InitExport ==
    /\ parserRejects \in {NoChar, "a"}
    /\ hljsDefined = TRUE
    /\ debugMode = FALSE
    /\ logThrows = FALSE
    /\ \E content \in StoredContents : Loaded(content, Len(content), Len(content))

SpecExport == InitExport /\ [][NextExport]_vars

\* a session in debug mode whose debug output cannot be written
InitLogFault ==
    /\ parserRejects \in {NoChar, "a"}
    /\ hljsDefined = TRUE
    /\ debugMode = TRUE
    /\ logThrows = TRUE
    /\ \E content \in StoredContents : Loaded(content, Len(content), Len(content))

SpecLogFault == InitLogFault /\ [][Next]_vars

-----------------------------------------------------------------------------
(* insertMarkup as a function of the buffer, the selection and the rule *)

\* the texts of at most n typed characters
TextsUpTo(n) == UNION {[1..k -> TypedChars] : k \in 0..n}

Hello == <<"h","e","l","l","o">>

\* longer buffers the function is applied to as well
SampleTexts == {Hello, <<NL, "a">>}

\* calls with other arguments than the toolbar's: a block prefix with the
\* default suffix or an inline suffix, and calls with ensureNewline off
OtherCalls ==
    {Rule(<<"j","a"," ">>, <<>>, TRUE),
     Rule(<<"k","l"," ">>, <<" ","l","k">>, TRUE),
     Rule(<<"j","f"," ">>, <<NL>>, FALSE),
     Rule(<<"j","l"," ">>, <<>>, FALSE)}

CallRules ==
    {ToolbarRule(a) : a \in ToolbarInsertActions}
        \cup {ShortcutRule(k) : k \in ShortcutInsertKeys}
        \cup OtherCalls

\* a buffer the user has typed, with any selection in it, in a session whose
\* parser accepts it
InitInsert ==
    /\ parserRejects = NoChar
    /\ hljsDefined = TRUE
    /\ debugMode = FALSE
    /\ logThrows = FALSE
    /\ \E content \in TextsUpTo(MaxText) \cup SampleTexts :
          \E s \in 0..Len(content) : \E e \in s..Len(content) :
             Loaded(content, s, e)

\* this.insertMarkup(prefix, suffix, ensureNewline)
Call(rule) ==
    /\ nInserts < MaxChain
    /\ insertMarkup(rule)
    /\ nInserts' = nInserts + 1

NextInsert == \E rule \in CallRules : Call(rule)

SpecInsert == InitInsert /\ [][NextInsert]_vars

\* a buffer with the selection an editor object hands in without keeping it
\* inside the text: either end up to one position outside, in either order
InitUntrusted ==
    /\ parserRejects = NoChar
    /\ hljsDefined = TRUE
    /\ debugMode = FALSE
    /\ logThrows = FALSE
    /\ \E content \in TextsUpTo(MaxText) \cup SampleTexts :
          \E s \in -1..Len(content) + 1 : \E e \in -1..Len(content) + 1 :
             Loaded(content, s, e)

SpecUntrusted == InitUntrusted /\ [][NextInsert]_vars

-----------------------------------------------------------------------------
(* The render pipeline: C1 to C4, over Spec *)

\* C1: the input events of one quiet window make at most one updatePreview
\* call between them (N edits within the window coalesce into one render).
C1_DebounceCoalescing == windowEdits >= 1 => windowRenders <= 1

\* C2: no exception leaves updatePreview, whether parseToHtml returned or
\* threw: every render cycle ends with a rendered or a failed outcome.
C2_RenderNeverThrows ==
    /\ ~escaped
    /\ preview # <<>>
    /\ \A i \in 1..Len(preview) : preview[i].kind \in {"html", "error"}

\* a typed edit whose parse threw, handled to the end
C2_Witness ==
    /\ nEdits > 0
    /\ parseThrows(sanitizeInput(value))
    /\ preview[Len(preview)] = ErrorBlock(ParseErrorMessage)

\* C3: after a render cycle the preview holds exactly one block; when the
\* parse of the buffer throws it is the error block with the thrown message,
\* with no html of an earlier render beside it.
C3_ErrorReplacesPreview ==
    /\ Len(preview) = 1
    /\ preview[1].kind \in {"html", "error"}
    /\ parseThrows(sanitizeInput(value)) => preview = <<ErrorBlock(ParseErrorMessage)>>
    /\ (~parseThrows(sanitizeInput(value)) /\ ~hljsDefined)
          => preview = <<ErrorBlock(HljsErrorMessage)>>

\* a failed render that followed a successful one (both are in the debug log)
C3_Witness ==
    /\ Len(debugLog) = 2
    /\ debugLog[1].message = "Preview updated"
    /\ debugLog[2].message = "Parser error"
    /\ preview = <<ErrorBlock(ParseErrorMessage)>>

\* the outcome of one render cycle over raw, from an empty preview
Outcome(raw) == updatePreview(raw, <<>>, <<>>).preview

\* C4: between handlers the preview is the outcome of rendering the current
\* buffer; a markup insertion has rendered its result when it returns.
C4_PreviewFollowsBuffer == preview = Outcome(value)

\* straight after an insertion the preview shows the inserted content
C4_Witness ==
    /\ last.op = "insert"
    /\ value # last.text
    /\ preview = <<HtmlBlock(parseToHtml(sanitizeInput(value)), TRUE)>>

-----------------------------------------------------------------------------
(* insertMarkup: C5 to C10.  The formulas read the arguments of the last   *)
(* call from last and its result from value, selStart and selEnd.          *)

Inserted == last.op = "insert"

Before == SubSeq(last.text, 1, last.start)
Selected == SubSeq(last.text, last.start + 1, last.end)
After == SubSeq(last.text, last.end + 1, Len(last.text))

\* the leading newline section 4.1 step 3 asks for
LeadingNL ==
    IF /\ last.ensureNewline
       /\ isBlockLevel(last.prefix)
       /\ last.start > 0
       /\ last.text[last.start] # NL
    THEN <<NL>>
    ELSE <<>>

\* the trailing newline section 4.1 step 4 asks for
TrailingNL ==
    IF /\ last.ensureNewline
       /\ isBlockLevel(last.prefix)
       /\ ~(last.suffix # <<>> /\ last.suffix[Len(last.suffix)] = NL)
    THEN <<NL>>
    ELSE <<>>

\* C5: the new content is before + leadingNL + prefix + selectedText + suffix
\* + trailingNL + after, with before and after unchanged and trailingNL as
\* step 4 defines it.
C5_Assembly ==
    Inserted =>
        \E lead \in {<<>>, <<NL>>} :
            value = Before \o lead \o last.prefix \o Selected \o last.suffix
                        \o TrailingNL \o After

\* a selection inside the text wrapped by a rule that gets a trailing newline
C5_Witness ==
    /\ Inserted
    /\ TrailingNL = <<NL>>
    /\ Before # <<>>
    /\ Selected # <<>>
    /\ After # <<>>

\* C6: a newline goes before the prefix exactly when ensureNewline holds, the
\* prefix is block-level, selectionStart > 0 and the character before the
\* selection is not a newline; none at offset 0, none after a newline.
C6_LeadingNewline ==
    Inserted =>
        /\ SubSeq(value, 1, last.start + Len(LeadingNL) + Len(last.prefix))
              = Before \o LeadingNL \o last.prefix
        /\ Len(value) = Len(Before) + Len(LeadingNL) + Len(last.prefix)
              + Len(Selected) + Len(last.suffix) + Len(TrailingNL) + Len(After)
        /\ (isBlockLevel(last.prefix) /\ last.start = 0)
              => SubSeq(value, 1, Len(last.prefix)) = last.prefix
        /\ (isBlockLevel(last.prefix) /\ last.start > 0 /\ last.text[last.start] = NL)
              => SubSeq(value, last.start + 1, last.start + Len(last.prefix)) = last.prefix

\* a block-level rule applied straight after a newline
C6_Witness ==
    /\ Inserted
    /\ last.ensureNewline
    /\ isBlockLevel(last.prefix)
    /\ last.start > 0
    /\ last.text[last.start] = NL
    /\ value[last.start + 1] = last.prefix[1]

\* the arguments of Scenario A
ScenarioA ==
    /\ Inserted
    /\ last.text = Hello
    /\ last.start = 5
    /\ last.end = 5
    /\ last.prefix = <<"j","s"," ">>
    /\ last.suffix = <<" ","s","j">>

\* C7: the caret is at selectionStart + leadingNL + prefix + selectedText +
\* suffix lengths: right after the suffix; Scenario A ends with content
\* "hellojs  sj" and caret 11.
C7_Caret ==
    Inserted =>
        /\ selStart = last.start + Len(LeadingNL) + Len(last.prefix)
                        + Len(Selected) + Len(last.suffix)
        /\ SubSeq(value, selStart - Len(last.suffix) + 1, selStart) = last.suffix
        /\ SubSeq(value, selStart + 1, Len(value)) = TrailingNL \o After
        /\ ScenarioA =>
              /\ value = <<"h","e","l","l","o","j","s"," "," ","s","j">>
              /\ selStart = 11

C7_Witness == ScenarioA /\ selStart = 11

\* the arguments of Scenario B
ScenarioB ==
    /\ Inserted
    /\ last.text = <<>>
    /\ last.start = 0
    /\ last.end = 0
    /\ last.prefix = <<"j","f"," ">>
    /\ last.suffix = <<NL>>
    /\ last.ensureNewline

\* C8 as stated: Scenario B gives content "jf \n" with no leading newline and
\* the caret at offset 3.
C8_ScenarioB_Caret3 ==
    ScenarioB =>
        /\ value = <<"j","f"," ",NL>>
        /\ selStart = 3
        /\ selEnd = 3

\* C8 as the code has it: Scenario B gives content "jf \n" with no leading
\* newline and the caret at offset 4, after the suffix "\n".
C8_ScenarioB ==
    ScenarioB =>
        /\ value = <<"j","f"," ",NL>>
        /\ selStart = 4
        /\ selEnd = 4

C8_Witness == ScenarioB /\ selStart = 4

\* C9 as stated: the new length is the old length plus the lengths of
\* leadingNL, prefix, selectedText, suffix and trailingNL.
C9_LengthWithSelection ==
    Inserted =>
        Len(value) = Len(last.text) + Len(LeadingNL) + Len(last.prefix)
                        + Len(Selected) + Len(last.suffix) + Len(TrailingNL)

\* C9 as the code has it: the new length is the old length plus the lengths
\* of leadingNL, prefix, suffix and trailingNL; the selected text is part of
\* the old length already.
C9_Length ==
    Inserted =>
        Len(value) = Len(last.text) + Len(LeadingNL) + Len(last.prefix)
                        + Len(last.suffix) + Len(TrailingNL)

\* a call that wrapped a non-empty selection
C9_Witness ==
    /\ Inserted
    /\ Selected # <<>>
    /\ Len(value) > Len(last.text)

\* C10: after an insert, and after a sequence of inserts, the selection is a
\* collapsed range [c, c] with 0 <= c <= the new content's length: the caret
\* insertMarkup asks for is inside the new content.
C10_CollapsedCaret ==
    Inserted =>
        /\ selStart = selEnd
        /\ selStart >= 0
        /\ selStart <= Len(value)
        /\ last.newPosition >= 0
        /\ last.newPosition <= Len(value)

\* a second insert in a row, its caret before the end of the content
C10_Witness ==
    /\ Inserted
    /\ nInserts = 2
    /\ selStart = selEnd
    /\ selStart < Len(value)

-----------------------------------------------------------------------------
(* insertMarkup on a selection outside the text: C11, over SpecUntrusted *)

\* the incoming selection, clamped into the text and put in order
ClampedStart == Min(Max(last.start, 0), Len(last.text))
ClampedEnd == Max(ClampedStart, Min(Max(last.end, 0), Len(last.text)))

-----------------------------------------------------------------------------
(* Persistence, the debug log and the word count: C12, C17, C20 over Spec *)

EditHandled == last.op \in {"input", "insert"}

\* C12: a typed edit and a markup insertion hand the new content to
\* saveContent first, in the handler of the edit itself, and render it only
\* after; the persisted content never lags the buffer.
C12_SaveBeforeRender ==
    /\ persisted = value
    /\ EditHandled =>
          /\ last.calls[1] = CallOf("saveContent", value)
          /\ \A i \in 1..Len(last.calls) :
                last.calls[i].call = "updatePreview" =>
                    \E j \in 1..(i - 1) :
                        last.calls[j] = CallOf("saveContent", last.calls[i].content)

\* a markup insertion after typed edits, saved and rendered
C12_Witness ==
    /\ last.op = "insert"
    /\ nEdits > 0
    /\ value # last.text
    /\ persisted = value
    /\ preview = Outcome(value)

\* C13: the buffer is never lost: after every step the persisted content is
\* the buffer, which after an edit is that edit's content, also when the
\* render of that edit failed; and a step of an export, failing or not,
\* changes neither the buffer nor the persisted content.
C13_BufferKept ==
    /\ [](/\ persisted = value
          /\ EditHandled => value = last.calls[1].content)
    /\ [][exportVars' # exportVars => (value' = value /\ persisted' = persisted)]_vars

\* an edit whose render failed was followed by an export that failed
C13_Witness ==
    /\ last.op = "input"
    /\ value = <<"a">>
    /\ preview = <<ErrorBlock(ParseErrorMessage)>>
    /\ exportsRejected > 0
    /\ notification = Notification("Failed to export PDF", "error")

-----------------------------------------------------------------------------
(* The toolbar's tags and the exports: C14, C15, C19 over SpecExport *)

\* what a rejected action must leave alone: buffer, selection, persisted
\* content, word count, preview, log, and the exports with their indicator
\* and notification
Snapshot ==
    <<value, selStart, selEnd, persisted, wordCountOf, preview, debugLog,
      exportRequests, exportsInFlight, exportsResolved, exportsRejected,
      indicator, notification>>

\* C14: a click whose tag is outside the closed set changes neither the
\* buffer, the selection, the persisted content, the preview nor the exports,
\* and raises no error.
C14_UnknownRejected ==
    [][(last' # last /\ last'.op = "click" /\ last'.action \notin ClosedTags)
          => (Snapshot' = Snapshot /\ ~escaped')]_vars

\* an unknown tag was clicked with text in the buffer and an export in flight
C14_Witness ==
    /\ last.op = "click"
    /\ last.action = UnknownTag
    /\ value # <<>>
    /\ exportsInFlight > 0

\* C15: every call of exportToPDF starts an export that stays in flight until
\* it settles in its own outcome, whatever else is in flight; and an edit
\* made with exports in flight is in the buffer, saved and rendered.
C15_ExportsIndependent ==
    /\ exportRequests = exportsInFlight + exportsResolved + exportsRejected
    /\ (EditHandled /\ last.inFlight > 0)
          => /\ value = last.calls[1].content
             /\ persisted = value
             /\ preview = Outcome(value)

\* markup was inserted with two exports in flight, of which one then
\* resolved and the other was rejected
C15_Witness ==
    /\ last.op = "insert"
    /\ last.inFlight = 2
    /\ value # last.text
    /\ exportsResolved = 1
    /\ exportsRejected = 1

\* C19: the indicator is displayed exactly when an export is in flight.
C19_IndicatorTracksExports ==
    (exportsInFlight > 0) <=> (indicator.display = "flex")
-----------------------------------------------------------------------------
(* The debug log: C16 over SpecLogFault, C17 over Spec *)

\* C16: when writing the debug entry throws, the edit's render still returns
\* normally, and a buffer the transform accepts is shown as its html.
C16_LoggingIsolated ==
    (EditHandled /\ logDebugThrows)
       => /\ ~escaped
          /\ ~parseThrows(sanitizeInput(value))
                => preview = <<HtmlBlock(parseToHtml(sanitizeInput(value)), TRUE)>>

IsPrefix(s, t) == Len(s) <= Len(t) /\ SubSeq(t, 1, Len(s)) = s

\* C17: with the debug flag off no step changes the debug log; with it on
\* every step leaves the log it found as a prefix of the log it leaves.
C17_LogAppendOnly ==
    [][IF debugMode THEN IsPrefix(debugLog, debugLog') ELSE debugLog' = debugLog]_vars

\* in debug mode an edit has appended an entry to the one the load wrote
C17_Witness ==
    /\ debugMode
    /\ EditHandled
    /\ Len(debugLog) >= 2
    /\ debugLog[1].message # debugLog[2].message

-----------------------------------------------------------------------------
(* Repeated insertion: C18 over SpecInsert *)

\* the places where two newline characters follow each other
DoubleNewlines(text) ==
    {i \in 1..Len(text) - 1 : text[i] = NL /\ text[i + 1] = NL}

\* C18: a block-level rule with ensureNewline, called again at the caret its
\* previous call left, leaves no more double newlines than it found.
C18_NoCompounding ==
    (Inserted /\ last.again /\ isBlockLevel(last.prefix) /\ last.ensureNewline)
       => Cardinality(DoubleNewlines(value)) <= Cardinality(DoubleNewlines(last.text))

-----------------------------------------------------------------------------
(* The word count: C20 over Spec *)

\* C20: the word count is the count of the current buffer content.
C20_WordCountCurrent == wordCountOf = value

=============================================================================
